---------------------------- MODULE Spec2Model ----------------------------
(***************************************************************************)
(* Orbit-camera math kernel of bevy_panorbit_camera (src/src/util.rs):     *)
(* the coordinate converter, the transform updater and the smoothing       *)
(* primitive.                                                              *)
(*                                                                         *)
(* Numbers.  A floating-point value is modelled by the rational number it  *)
(* denotes, a pair <<n, d>> in lowest terms with d > 0.  Arithmetic inside *)
(* one floating-point type is exact here (rounding of +, *, powf is not    *)
(* modelled); a narrowing conversion (`as f32`, as_vec3, as_quat) rounds   *)
(* to a 24-bit significand as the hardware does.  Angles are counted in    *)
(* quarter turns (1 = pi/2), on which sin, cos, atan2 and asin are exact.  *)
(* Time is drawn in sevenths of a second, on which powf of a seventh power *)
(* is exact.                                                               *)
(***************************************************************************)
EXTENDS Integers, Sequences, FiniteSets, TLC

VARIABLES
    \* ---- smoothing channel (lerp_and_snap_*) ----
    variant,      \* which lerp_and_snap_* function drives this channel
    start,        \* the channel's value before the first tick
    value,        \* the channel's current value
    target,       \* the value the channel is driven toward (`to`)
    call,         \* the arguments of the last call of the function
    decay,        \* seconds elapsed in ticks with 0 < smoothness < 1
    uniform,      \* every tick so far used the same smoothness, inside (0,1)
    \* ---- orbit (calculate_from_translation_and_focus, update_orbit_transform)
    translation,  \* the camera's starting translation (DVec3)
    focus,        \* the focus point (DVec3)
    axis,         \* the axis triple [right, up, forward]
    yaw, pitch, radius,   \* orbit state (yaw and pitch in quarter turns)
    position,     \* *position, the cached DVec3
    transform,    \* *transform: [translation: Vec3, rotation: Quat]
    projection,   \* *projection
    before,       \* *projection as it was before the last update
    phase         \* what happened last to the orbit state

smoothVars == <<variant, start, value, target, call, decay, uniform>>
orbitVars == <<translation, focus, axis, yaw, pitch, radius, position,
               transform, projection, before, phase>>
vars == <<variant, start, value, target, call, decay, uniform,
          translation, focus, axis, yaw, pitch, radius, position,
          transform, projection, before, phase>>

-----------------------------------------------------------------------------
(* Exact rational arithmetic: the values of f32 and f64 numbers.           *)

Abs(i) == IF i < 0 THEN -i ELSE i

\* Euclid's algorithm on natural numbers.
Euclid[a \in Nat, b \in Nat] == IF b = 0 THEN a ELSE Euclid[b, a % b]

Gcd(a, b) == Euclid[a, b]

\* n/d in lowest terms with a positive denominator (d # 0).
Rat(n, d) ==
    LET s == IF d < 0 THEN -1 ELSE 1
        g == Gcd(Abs(n), Abs(d))
    IN  <<(s * n) \div g, (s * d) \div g>>

Zero == <<0, 1>>
One == <<1, 1>>
Int2Rat(i) == <<i, 1>>

RNeg(a) == <<-a[1], a[2]>>
RAbs(a) == <<Abs(a[1]), a[2]>>

\* a + b over the least common denominator.
RAdd(a, b) ==
    LET g == Gcd(a[2], b[2])
        l == (a[2] \div g) * b[2]
    IN  Rat(a[1] * (l \div a[2]) + b[1] * (l \div b[2]), l)

RSub(a, b) == RAdd(a, RNeg(b))

\* a * b, cancelling across before multiplying.
RMul(a, b) ==
    LET g1 == Gcd(Abs(a[1]), b[2])
        g2 == Gcd(Abs(b[1]), a[2])
    IN  Rat((a[1] \div g1) * (b[1] \div g2), (a[2] \div g2) * (b[2] \div g1))

\* a / b (b # 0).
RDiv(a, b) ==
    RMul(a, IF b[1] < 0 THEN <<-b[2], -b[1]>> ELSE <<b[2], b[1]>>)

\* a < b: by the integer parts, then by the fractional parts over the least
\* common denominator.
RLt(a, b) ==
    LET fa == a[1] \div a[2]
        fb == b[1] \div b[2]
        g == Gcd(a[2], b[2])
    IN  IF fa # fb THEN fa < fb
        ELSE (a[1] - fa * a[2]) * (b[2] \div g) < (b[1] - fb * b[2]) * (a[2] \div g)

RLe(a, b) == ~RLt(b, a)

RMax(a, b) == IF RLt(a, b) THEN b ELSE a

\* x^n for a natural number n (f64::powi); x is in lowest terms, so x^n is.
powi(x, n) == <<x[1] ^ n, x[2] ^ n>>

\* The rational r with r^7 = t, for t the seventh power of a rational.
Root7(t) ==
    LET R(n) == CHOOSE r \in 0..8 : r ^ 7 = n
    IN  <<R(t[1]), R(t[2])>>

\* t^dt for t >= 0 and dt >= 0 (f64::powf): pow(x, 0) is 1 for every x, 0 included;
\* for dt = k/7 the power is the k-th power of the seventh root.
powf(t, dt) ==
    IF dt = Zero THEN One
    ELSE IF t = Zero THEN Zero
    ELSE powi(Root7(t), dt[1] * (7 \div dt[2]))

\* The square root of a rational that is a perfect square (f64::sqrt).
Sqrt(a) ==
    LET R(n) == CHOOSE r \in 0..n : r * r = n
    IN  <<R(a[1]), R(a[2])>>

\* s * (self - rhs) + ... : FloatExt::lerp, self + (rhs - self) * s.
lerp(self, rhs, s) == RAdd(self, RMul(RSub(rhs, self), s))

-----------------------------------------------------------------------------
(* Narrowing to single precision.                                          *)

Pow2(e) == IF e >= 0 THEN <<2 ^ e, 1>> ELSE <<1, 2 ^ (-e)>>

\* a * 2^e
Scale2(a, e) == RMul(a, Pow2(e))

\* The exponent e with 2^23 <= a * 2^e < 2^24, for a > 0: the place of the
\* last of the 24 bits an f32 keeps of a.
F32Exponent(a) ==
    CHOOSE e \in -7..30 : RLe(Pow2(23 - e), a) /\ RLt(a, Pow2(24 - e))

\* The integer nearest to a >= 0, ties to even.
RoundEven(a) ==
    LET fl == a[1] \div a[2]
        twice == 2 * (a[1] - fl * a[2])
    IN  IF twice < a[2] THEN fl
        ELSE IF twice > a[2] THEN fl + 1
        ELSE IF fl % 2 = 0 THEN fl ELSE fl + 1

\* `x as f32`: the nearest number with a 24-bit significand, ties to even
\* (the exponent range of f32 is not reached by the values drawn here).
AsF32(x) ==
    IF x = Zero THEN Zero
    ELSE LET a == RAbs(x)
             e == F32Exponent(a)
             m == RoundEven(Scale2(a, e))
             r == Scale2(<<m, 1>>, -e)
         IN  IF x[1] < 0 THEN RNeg(r) ELSE r

-----------------------------------------------------------------------------
(* 3-vectors (Vec3, DVec3) and rotations.                                  *)

VZero == <<Zero, Zero, Zero>>
VAdd(u, v) == <<RAdd(u[1], v[1]), RAdd(u[2], v[2]), RAdd(u[3], v[3])>>
VSub(u, v) == <<RSub(u[1], v[1]), RSub(u[2], v[2]), RSub(u[3], v[3])>>
VScale(u, s) == <<RMul(u[1], s), RMul(u[2], s), RMul(u[3], s)>>
Dot(u, v) == RAdd(RAdd(RMul(u[1], v[1]), RMul(u[2], v[2])), RMul(u[3], v[3]))
Cross(u, v) ==
    <<RSub(RMul(u[2], v[3]), RMul(u[3], v[2])),
      RSub(RMul(u[3], v[1]), RMul(u[1], v[3])),
      RSub(RMul(u[1], v[2]), RMul(u[2], v[1]))>>

\* Vec3::length, sqrt(dot(v, v)), computed on v scaled by its largest component
\* so that the squares stay small: m * sqrt(dot(v/m, v/m)).
Length(v) ==
    LET m == RMax(RAbs(v[1]), RMax(RAbs(v[2]), RAbs(v[3])))
    IN  IF m = Zero THEN Zero
        ELSE LET w == VScale(v, RDiv(One, m))
             IN  RMul(m, Sqrt(Dot(w, w)))

\* Vec3::lerp, self + (rhs - self) * s.
vlerp(self, rhs, s) == VAdd(self, VScale(VSub(rhs, self), s))

AsVec3(v) == <<AsF32(v[1]), AsF32(v[2]), AsF32(v[3])>>

-----------------------------------------------------------------------------
(* The smoothing primitive, src/src/util.rs lines 6 and 52-94.             *)

\* const EPSILON: f32 = 0.001, taken at its decimal value; `EPSILON as f64`
\* widens it, which changes nothing.
EPSILON == <<1, 1000>>

approx_equal(a, b) == RLt(RAbs(RSub(a, b)), EPSILON)

approx_equal_f64(a, b) == RLt(RAbs(RSub(a, b)), EPSILON)

\* lerp_and_snap_f32 without its `smoothness < 1.0` test.
lerp_and_snap_f32_snaps_at_one(from, to, smoothness, dt) ==
    LET t == powi(smoothness, 7)
        new_value == lerp(from, to, RSub(One, powf(t, dt)))
    IN  IF approx_equal(new_value, to) THEN to ELSE new_value

lerp_and_snap_f32(from, to, smoothness, dt) ==
    LET t == powi(smoothness, 7)
        new_value == lerp(from, to, RSub(One, powf(t, dt)))
    IN  IF RLt(smoothness, One) /\ approx_equal(new_value, to)
        THEN to
        ELSE new_value

\* lerp_and_snap_f64 without the snap.
lerp_and_snap_f64_never_snaps(from, to, smoothness, dt) ==
    lerp(from, to, RSub(One, powf(powi(smoothness, 7), dt)))

\* lerp_and_snap_f64 with the fraction 1 - t, delta time left out.
lerp_and_snap_f64_ignores_dt(from, to, smoothness, dt) ==
    LET t == powi(smoothness, 7)
        new_value == lerp(from, to, RSub(One, t))
    IN  IF RLt(smoothness, One) /\ approx_equal_f64(new_value, to)
        THEN to
        ELSE new_value

lerp_and_snap_f64(from, to, smoothness, dt) ==
    LET t == powi(smoothness, 7)
        new_value == lerp(from, to, RSub(One, powf(t, dt)))
    IN  IF RLt(smoothness, One) /\ approx_equal_f64(new_value, to)
        THEN to
        ELSE new_value

\* lerp_and_snap_vec3 with the fraction 1 + t^dt.
lerp_and_snap_vec3_overshoots(from, to, smoothness, dt) ==
    LET t == powi(smoothness, 7)
        new_value == vlerp(from, to, RAdd(One, powf(t, dt)))
    IN  IF RLt(smoothness, One) /\ approx_equal(Length(VSub(new_value, to)), Zero)
        THEN <<to[1], new_value[2], new_value[3]>>
        ELSE new_value

\* The snap assigns new_value.x alone.
lerp_and_snap_vec3(from, to, smoothness, dt) ==
    LET t == powi(smoothness, 7)
        new_value == vlerp(from, to, RSub(One, powf(t, dt)))
    IN  IF RLt(smoothness, One) /\ approx_equal(Length(VSub(new_value, to)), Zero)
        THEN <<to[1], new_value[2], new_value[3]>>
        ELSE new_value

\* lerp_and_snap_dvec3 with the fraction t^dt, the `1.0 -` left out.
lerp_and_snap_dvec3_inverted(from, to, smoothness, dt) ==
    LET t == powi(smoothness, 7)
        new_value == vlerp(from, to, powf(t, dt))
    IN  IF RLt(smoothness, One) /\ approx_equal_f64(Length(VSub(new_value, to)), Zero)
        THEN <<to[1], new_value[2], new_value[3]>>
        ELSE new_value

lerp_and_snap_dvec3(from, to, smoothness, dt) ==
    LET t == powi(smoothness, 7)
        new_value == vlerp(from, to, RSub(One, powf(t, dt)))
    IN  IF RLt(smoothness, One) /\ approx_equal_f64(Length(VSub(new_value, to)), Zero)
        THEN <<to[1], new_value[2], new_value[3]>>
        ELSE new_value

-----------------------------------------------------------------------------
(* Bounds and inputs of the smoothing channel.                             *)

\* Ticks with 0 < smoothness < 1 stop once they have covered this many
\* sevenths of a second.
MaxDecay == 12

Half == <<1, 2>>
Smoothness == {Zero, Half, One}
DeltaTime == {Zero, <<1, 7>>, <<2, 7>>, One}
Interior(s) == RLt(Zero, s) /\ RLt(s, One)

ScalarVariants == {"f32", "f64"}
VectorVariants == {"vec3", "dvec3"}

\* <<from, to>> pairs: far below, just inside and just outside the snap
\* distance, equal, and above the target.
ScalarInputs ==
    { <<One, <<2, 1>>>>,
      <<<<2047, 1024>>, <<2, 1>>>>,
      <<<<1023, 512>>, <<2, 1>>>>,
      <<<<2, 1>>, <<2, 1>>>>,
      <<<<3, 1>>, <<2, 1>>>>,
      <<<<-1, 2>>, <<-1, 1>>>> }

VecX == <<One, Zero, Zero>>
VectorInputs ==
    { <<VZero, VecX>>,
      <<<<<<1023, 1024>>, Zero, Zero>>, VecX>>,
      <<VZero, <<<<3, 8>>, <<1, 2>>, Zero>>>>,
      <<VecX, <<One, <<3, 8>>, <<1, 2>>>>>>,
      <<<<One, Zero, <<1, 2048>>>>, VecX>>,
      <<<<One, <<2, 1>>, <<3, 1>>>>, <<One, <<2, 1>>, <<3, 1>>>>>> }

NoCall(from) == [made |-> FALSE, from |-> from, smoothness |-> One, dt |-> Zero]

\* A channel of one of the four types with a value and a target; the orbit
\* variables are at rest throughout.
SmoothInit ==
    /\ variant \in ScalarVariants \cup VectorVariants
    /\ \E io \in (IF variant \in ScalarVariants THEN ScalarInputs ELSE VectorInputs) :
          /\ start = io[1]
          /\ target = io[2]
    /\ value = start
    /\ call = NoCall(start)
    /\ decay = Zero
    /\ uniform = TRUE
    /\ translation = VZero /\ focus = VZero
    /\ axis = <<VecX, <<Zero, One, Zero>>, <<Zero, Zero, One>>>>
    /\ yaw = 0 /\ pitch = 0 /\ radius = One
    /\ position = VZero
    /\ transform = [translation |-> VZero,
                    rotation |-> <<VecX, <<Zero, One, Zero>>, <<Zero, Zero, One>>>>]
    /\ projection = [kind |-> "Perspective"]
    /\ before = [projection |-> [kind |-> "Perspective"]]
    /\ phase = "init"

\* One tick of the driving loop on the channel: the call's arguments are the
\* channel's value, its target and the tick's smoothness and delta time, and
\* the channel takes the value returned.
Tick(smoothness, dt, new_value) ==
    /\ Interior(smoothness) => RLe(RAdd(decay, dt), Rat(MaxDecay, 7))
    /\ value' = new_value
    /\ call' = [made |-> TRUE, from |-> value, smoothness |-> smoothness, dt |-> dt]
    /\ decay' = IF Interior(smoothness) THEN RAdd(decay, dt) ELSE decay
    /\ uniform' = (uniform /\ (call.made => smoothness = call.smoothness))
    /\ UNCHANGED <<variant, start, target>>

LerpAndSnapF32 ==
    /\ variant = "f32"
    /\ \E smoothness \in Smoothness, dt \in DeltaTime :
          Tick(smoothness, dt, lerp_and_snap_f32(value, target, smoothness, dt))
    /\ UNCHANGED orbitVars

LerpAndSnapF64 ==
    /\ variant = "f64"
    /\ \E smoothness \in Smoothness, dt \in DeltaTime :
          Tick(smoothness, dt, lerp_and_snap_f64(value, target, smoothness, dt))
    /\ UNCHANGED orbitVars

LerpAndSnapVec3 ==
    /\ variant = "vec3"
    /\ \E smoothness \in Smoothness, dt \in DeltaTime :
          Tick(smoothness, dt, lerp_and_snap_vec3(value, target, smoothness, dt))
    /\ UNCHANGED orbitVars

LerpAndSnapDVec3 ==
    /\ variant = "dvec3"
    /\ \E smoothness \in Smoothness, dt \in DeltaTime :
          Tick(smoothness, dt, lerp_and_snap_dvec3(value, target, smoothness, dt))
    /\ UNCHANGED orbitVars

SmoothNext == LerpAndSnapF32 \/ LerpAndSnapF64 \/ LerpAndSnapVec3 \/ LerpAndSnapDVec3

SmoothSpec == SmoothInit /\ [][SmoothNext]_vars

-----------------------------------------------------------------------------
(* Rotations.  A DQuat is modelled by the rotation it stands for, written  *)
(* as the images of the three unit vectors (the columns of its matrix); a  *)
(* DMat3 is its three columns.                                             *)

UnitX == <<One, Zero, Zero>>
UnitY == <<Zero, One, Zero>>
UnitZ == <<Zero, Zero, One>>
Identity == <<UnitX, UnitY, UnitZ>>

\* cos and sin of k quarter turns.
CosQ(k) == CASE k % 4 = 0 -> One [] k % 4 = 1 -> Zero
             [] k % 4 = 2 -> RNeg(One) [] k % 4 = 3 -> Zero
SinQ(k) == CASE k % 4 = 0 -> Zero [] k % 4 = 1 -> One
             [] k % 4 = 2 -> Zero [] k % 4 = 3 -> RNeg(One)

\* DMat3 * DVec3 and DQuat * DVec3: the combination of the columns.
MatVec(m, v) ==
    VAdd(VAdd(VScale(m[1], v[1]), VScale(m[2], v[2])), VScale(m[3], v[3]))

\* DQuat * DQuat: (a * b) * v = a * (b * v).
MatMul(a, b) == <<MatVec(a, b[1]), MatVec(a, b[2]), MatVec(a, b[3])>>

\* DQuat::from_axis_angle for a unit axis a and an angle of k quarter turns:
\* v cos + (a x v) sin + a (a . v)(1 - cos), on the three unit vectors.
Rodrigues(a, k) ==
    LET Rotate(v) ==
            VAdd(VAdd(VScale(v, CosQ(k)), VScale(Cross(a, v), SinQ(k))),
                 VScale(a, RMul(Dot(a, v), RSub(One, CosQ(k)))))
    IN  <<Rotate(UnitX), Rotate(UnitY), Rotate(UnitZ)>>

\* The rotations about the three unit vectors, computed once; a rotation by k
\* quarter turns is the rotation by k % 4.
QuarterTurns == [a \in {UnitX, UnitY, UnitZ}, k \in 0..3 |-> Rodrigues(a, k)]

from_axis_angle(a, k) == QuarterTurns[a, k % 4]

\* DQuat::as_quat
AsQuat(q) == <<AsVec3(q[1]), AsVec3(q[2]), AsVec3(q[3])>>

\* f64::atan2(self, other) in quarter turns, where one of the two is zero.
atan2(self, other) ==
    CASE self = Zero /\ RLe(Zero, other) -> 0
      [] self = Zero /\ RLt(other, Zero) -> 2
      [] RLt(Zero, self) /\ other = Zero -> 1
      [] RLt(self, Zero) /\ other = Zero -> -1

\* f64::asin in quarter turns, on -1, 0 and 1.
asin(x) ==
    CASE x = Zero -> 0
      [] x = One -> 1
      [] x = RNeg(One) -> -1

-----------------------------------------------------------------------------
(* The coordinate converter and the transform updater,                     *)
(* src/src/util.rs lines 8-50.                                             *)

\* radius = 0.05; // Radius 0 causes problems
RadiusFloor == <<1, 20>>

\* calculate_from_translation_and_focus with the floor 0.5.
calculate_with_floor_half(tr, fo, ax) ==
    LET comp_vec == VSub(tr, fo)
        len == Length(comp_vec)
        rad == IF len = Zero THEN <<1, 2>> ELSE len
        local == MatVec(ax, comp_vec)
    IN  <<atan2(local[1], local[3]), asin(RDiv(local[2], rad)), rad>>

\* (yaw, pitch, radius) of translation tr about focus fo under the axis triple
\* ax; DMat3::from_cols(axis[0], axis[1], axis[2]) is ax itself.
calculate_from_translation_and_focus(tr, fo, ax) ==
    LET comp_vec == VSub(tr, fo)
        len == Length(comp_vec)
        rad == IF len = Zero THEN RadiusFloor ELSE len
        local == MatVec(ax, comp_vec)
    IN  <<atan2(local[1], local[3]), asin(RDiv(local[2], rad)), rad>>

\* update_orbit_transform that keeps the radius argument for positioning under
\* an orthographic projection.
update_orbit_transform_no_override(y, p, r, fo, tf, pos, proj, ax) ==
    LET ortho == proj.kind = "Orthographic"
        new_rotation == MatMul(from_axis_angle(ax[2], y), from_axis_angle(ax[1], -p))
        new_position == VAdd(fo, MatVec(new_rotation, <<Zero, Zero, r>>))
    IN  [projection |-> IF ortho THEN [proj EXCEPT !.scale = AsF32(r)] ELSE proj,
         position |-> new_position,
         transform |-> [rotation |-> MatMul(Identity, AsQuat(new_rotation)),
                        translation |-> VAdd(VZero, AsVec3(new_position))]]

\* The values update_orbit_transform writes to *transform, *position and
\* *projection; tf and pos are the values it finds there and never reads.
update_orbit_transform(y, p, r, fo, tf, pos, proj, ax) ==
    LET ortho == proj.kind = "Orthographic"
        rad == IF ortho THEN RDiv(RAdd(proj.near, proj.far), <<2, 1>>) ELSE r
        yaw_rot == from_axis_angle(ax[2], y)
        pitch_rot == from_axis_angle(ax[1], -p)
        new_rotation == MatMul(yaw_rot, pitch_rot)
        new_position == VAdd(fo, MatVec(new_rotation, <<Zero, Zero, rad>>))
    IN  [projection |-> IF ortho THEN [proj EXCEPT !.scale = AsF32(r)] ELSE proj,
         position |-> new_position,
         transform |-> [rotation |-> MatMul(Identity, AsQuat(new_rotation)),
                        translation |-> VAdd(VZero, AsVec3(new_position))]]

-----------------------------------------------------------------------------
(* Bounds and inputs of the orbit.                                         *)

\* Yaw arguments range over -MaxTurns..MaxTurns quarter turns.
MaxTurns == 1

Yaws == (-MaxTurns)..MaxTurns
Pitches == {-1, 0, 1}
Radii == {RadiusFloor, <<5, 1>>}

\* [right, up, forward]: Y up, and Z up ([X, Z, Y]).
AxisTriples == { <<UnitX, UnitY, UnitZ>>, <<UnitX, UnitZ, UnitY>> }

Foci == { VZero, <<One, <<2, 1>>, <<3, 1>>>> }

\* Offsets of the camera from its focus: none, or 5 along a signed unit vector.
Offsets ==
    { VZero, VScale(UnitZ, <<5, 1>>), VScale(UnitX, <<-5, 1>>), VScale(UnitY, <<5, 1>>) }

Projections ==
    { [kind |-> "Perspective"],
      [kind |-> "Orthographic", near |-> <<1, 2>>, far |-> <<10, 1>>, scale |-> <<2, 1>>] }

\* Values *transform holds before the first update.
Transforms ==
    { [rotation |-> Identity, translation |-> VZero],
      [rotation |-> from_axis_angle(UnitY, 1), translation |-> <<One, One, One>>] }

\* A camera at a translation about a focus, before initialization; the
\* smoothing variables are at rest throughout.
OrbitInit ==
    /\ focus \in Foci
    /\ \E off \in Offsets : translation = VAdd(focus, off)
    /\ axis \in AxisTriples
    /\ projection \in Projections
    /\ transform \in Transforms
    /\ position = transform.translation
    /\ yaw = 0 /\ pitch = 0 /\ radius = One
    /\ before = [projection |-> projection]
    /\ phase = "init"
    /\ variant = "f64"
    /\ start = Zero /\ value = Zero /\ target = Zero
    /\ call = NoCall(Zero)
    /\ decay = Zero
    /\ uniform = TRUE

\* Initialization: the orbit state is derived from the starting translation.
CalculateFromTranslationAndFocus ==
    /\ phase = "init"
    /\ \E ypr \in {calculate_from_translation_and_focus(translation, focus, axis)} :
          /\ yaw' = ypr[1]
          /\ pitch' = ypr[2]
          /\ radius' = ypr[3]
    /\ phase' = "calculated"
    /\ UNCHANGED <<translation, focus, axis, position, transform, projection, before>>
    /\ UNCHANGED smoothVars

\* The call's writes through its three &mut arguments.
Write(out) ==
    /\ transform' = out.transform
    /\ position' = out.position
    /\ projection' = out.projection
    /\ before' = [projection |-> projection]

\* Initialization, continued: the first update, from the derived orbit state.
UpdateOrbitTransformInitial ==
    /\ phase = "calculated"
    /\ \E out \in {update_orbit_transform(yaw, pitch, radius, focus, transform,
                                          position, projection, axis)} : Write(out)
    /\ phase' = "initialized"
    /\ UNCHANGED <<translation, focus, axis, yaw, pitch, radius>>
    /\ UNCHANGED smoothVars

\* A later update, with the yaw, pitch and radius the driving loop passes.
UpdateOrbitTransform ==
    /\ phase \in {"initialized", "updated"}
    /\ \E y \in Yaws, p \in Pitches, r \in Radii :
          /\ yaw' = y /\ pitch' = p /\ radius' = r
          /\ \E out \in {update_orbit_transform(y, p, r, focus, transform,
                                                position, projection, axis)} : Write(out)
    /\ phase' = "updated"
    /\ UNCHANGED <<translation, focus, axis>>
    /\ UNCHANGED smoothVars

OrbitNext ==
    CalculateFromTranslationAndFocus \/ UpdateOrbitTransformInitial \/ UpdateOrbitTransform

OrbitSpec == OrbitInit /\ [][OrbitNext]_vars

-----------------------------------------------------------------------------
(* Properties of the smoothing primitive, checked under SmoothSpec.        *)

\* The distance the snap test measures: absolute difference for scalars,
\* Euclidean distance for vectors.
Dist(a, b) ==
    IF variant \in ScalarVariants THEN RAbs(RSub(a, b)) ELSE Length(VSub(a, b))

\* 1 - (smoothness^7)^dt
Fraction(smoothness, dt) == RSub(One, powf(powi(smoothness, 7), dt))

\* The channel's function applied once.
Once(from, to, smoothness, dt) ==
    CASE variant = "f32" -> lerp_and_snap_f32(from, to, smoothness, dt)
      [] variant = "f64" -> lerp_and_snap_f64(from, to, smoothness, dt)
      [] variant = "vec3" -> lerp_and_snap_vec3(from, to, smoothness, dt)
      [] variant = "dvec3" -> lerp_and_snap_dvec3(from, to, smoothness, dt)

\* lo <= x <= hi for the two ends in either order.
Between(x, a, b) ==
    \/ RLe(a, x) /\ RLe(x, b)
    \/ RLe(b, x) /\ RLe(x, a)

\* C1: for the 3-vector variants, with smoothness < 1, when the interpolated
\* vector is at Euclidean distance less than 0.001 from `to`, the returned
\* vector equals `to` in x, y and z.
C1_VectorSnapsEveryComponent ==
    (variant \in VectorVariants /\ call.made /\ RLt(call.smoothness, One)) =>
        LET interp == VAdd(call.from,
                           VScale(VSub(target, call.from),
                                  Fraction(call.smoothness, call.dt)))
        IN  RLt(Length(VSub(interp, target)), <<1, 1000>>) => value = target

\* C2: for the scalar variants, with smoothness < 1, the result is `to` when
\* from + (to - from) * (1 - (smoothness^7)^dt) is at absolute distance less
\* than 0.001 from `to`, and is that interpolated value otherwise.
C2_ScalarSnapOrLerp ==
    (variant \in ScalarVariants /\ call.made /\ RLt(call.smoothness, One)) =>
        LET interp == RAdd(call.from,
                           RMul(RSub(target, call.from),
                                Fraction(call.smoothness, call.dt)))
        IN  value = IF RLt(RAbs(RSub(interp, target)), <<1, 1000>>)
                    THEN target
                    ELSE interp

\* A call whose interpolated value lies inside the snap distance, short of the
\* target, and which returned the target.
C2_Witness ==
    /\ variant = "f32" /\ call.made
    /\ call.from = <<2047, 1024>> /\ call.smoothness = Half /\ call.dt = One
    /\ target = <<2, 1>> /\ value = target

\* C3: with smoothness = 1 a call returns `from` unchanged, also within 0.001
\* of `to`, and so does any number of successive ticks.
C3_SmoothnessOneNeverMoves ==
    /\ (call.made /\ call.smoothness = One) => value = call.from
    /\ (call.made /\ call.smoothness = One /\ uniform) => value = start

\* A tick with smoothness 1 and dt > 0 on a value inside the snap distance that
\* is left where it was.
C3_Witness ==
    /\ call.made /\ call.smoothness = One /\ call.dt = One /\ uniform
    /\ value # target /\ RLt(Dist(value, target), EPSILON)
    /\ value = start

\* C4 as stated: a call with dt = 0 returns `from` unchanged for every
\* smoothness in [0,1].
C4_ZeroDtReturnsFrom ==
    (call.made /\ call.dt = Zero) => value = call.from

\* C4 amended: a call with dt = 0 returns `from` unchanged when smoothness = 1
\* or `from` is at distance at least 0.001 from `to`; otherwise (smoothness < 1,
\* `from` within 0.001 of `to`) the scalar variants return `to`.
C4_ZeroDtMovesOnlyBySnap ==
    (call.made /\ call.dt = Zero) =>
        IF call.smoothness = One \/ RLe(<<1, 1000>>, Dist(call.from, target))
        THEN value = call.from
        ELSE variant \in ScalarVariants => value = target

\* A call with dt = 0 and smoothness 0 on a value away from its target, which
\* stayed where it was.
C4_Witness ==
    /\ call.made /\ call.dt = Zero /\ call.smoothness = Zero
    /\ value = call.from /\ value # target

\* C5: ticks d1, ..., dn with one smoothness strictly between 0 and 1, each
\* starting from the previous result, end on the value one call with
\* dt = d1 + ... + dn gives.
C5_FrameRateIndependent ==
    (call.made /\ uniform /\ Interior(call.smoothness)) =>
        value = Once(start, target, call.smoothness, decay)

\* At least two ticks with dt > 0 in all, the last one shorter than the whole
\* interval, and the value still short of its target.
C5_Witness ==
    /\ call.made /\ uniform /\ Interior(call.smoothness)
    /\ RLt(Zero, call.dt) /\ RLt(call.dt, decay)
    /\ call.from # start /\ value # target /\ value # call.from

\* C7: a tick with 0 < smoothness < 1 and dt > 0 on a value that is not at its
\* target strictly decreases the distance to the target, and the value does not
\* move past the target (in any component).
C7_MonotonicConvergence ==
    (call.made /\ Interior(call.smoothness) /\ RLt(Zero, call.dt)
       /\ call.from # target) =>
        /\ RLt(Dist(value, target), Dist(call.from, target))
        /\ IF variant \in ScalarVariants
           THEN Between(value, call.from, target)
           ELSE \A i \in 1..3 : Between(value[i], call.from[i], target[i])

\* A vector tick that moved the value and left it short of its target.
C7_Witness ==
    /\ variant = "dvec3" /\ call.made
    /\ Interior(call.smoothness) /\ RLt(Zero, call.dt)
    /\ value # call.from /\ value # target

\* The sevenths of a second of decay at smoothness 1/2 after which a value that
\* started at distance d from its target is inside the snap distance.
SettleTime(d) ==
    CHOOSE k \in 0..MaxDecay :
        /\ RLt(RMul(d, powi(Half, k)), EPSILON)
        /\ \A j \in 0..(k - 1) : ~RLt(RMul(d, powi(Half, j)), EPSILON)

\* C10: with a fixed target and ticks of smoothness < 1 and dt > 0 the value
\* is equal to the target after finitely many ticks (here: once the decay has
\* brought the distance under 0.001), and a value equal to its target stays
\* equal to it under every later tick.
C10_Settles ==
    /\ (RLt(Zero, decay) /\ RLe(Rat(SettleTime(Dist(start, target)), 7), decay))
          => value = target
    /\ (call.made /\ call.from = target) => value = target

-----------------------------------------------------------------------------
(* Properties of the coordinate converter and the transform updater,       *)
(* checked under OrbitSpec.                                                *)

\* The rotation the updater composes from the orbit's yaw and pitch.
Composed == MatMul(from_axis_angle(axis[2], yaw), from_axis_angle(axis[1], -pitch))

\* C6: for translation # focus and a perspective projection, the position
\* written by update_orbit_transform from the (yaw, pitch, radius) that
\* calculate_from_translation_and_focus returned, with the same focus and axis
\* triple, equals the original translation, for every axis triple.
C6_RoundTrip ==
    (phase = "initialized" /\ projection.kind = "Perspective" /\ translation # focus)
        => position = translation

\* C8: calculate_from_translation_and_focus returns yaw = 0, pitch = 0 and
\* radius = 0.05 when translation = focus, and radius = |translation - focus|
\* otherwise; the radius is strictly positive.
C8_ZeroOffsetFloor ==
    phase = "calculated" =>
        /\ translation = focus => (yaw = 0 /\ pitch = 0 /\ radius = <<1, 20>>)
        /\ translation # focus => radius = Length(VSub(translation, focus))
        /\ RLt(Zero, radius)

\* The converter has run on a camera placed at its focus, under the Z-up axis
\* triple, and returned the floor.
C8_Witness ==
    /\ phase = "calculated" /\ translation = focus
    /\ axis = <<UnitX, UnitZ, UnitY>>
    /\ radius = <<1, 20>> /\ yaw = 0 /\ pitch = 0

\* C9 as stated: under an orthographic projection the call sets scale to the
\* radius argument, leaves near and far unchanged and writes a position at
\* distance (near + far) / 2 from focus; under a perspective projection it
\* leaves the projection unchanged and writes a position at distance radius
\* from focus; the transform's translation equals the written position and
\* its rotation equals yaw_rotation * pitch_rotation.
C9_ProjectionDependentRadius ==
    phase \in {"initialized", "updated"} =>
        /\ projection.kind = "Orthographic" =>
              /\ projection.scale = radius
              /\ projection.near = before.projection.near
              /\ projection.far = before.projection.far
              /\ Length(VSub(position, focus))
                    = RDiv(RAdd(projection.near, projection.far), <<2, 1>>)
        /\ projection.kind = "Perspective" =>
              /\ projection = before.projection
              /\ Length(VSub(position, focus)) = radius
        /\ transform.translation = position
        /\ transform.rotation = Composed

\* C9 amended: as stated, except that scale is the radius argument converted
\* to f32, the transform's translation is the written position converted to
\* f32 components, and its rotation is yaw_rotation * pitch_rotation converted
\* to an f32 quaternion.
C9_NarrowedToSinglePrecision ==
    phase \in {"initialized", "updated"} =>
        /\ projection.kind = before.projection.kind
        /\ projection.kind = "Orthographic" =>
              /\ projection.scale = AsF32(radius)
              /\ projection.near = before.projection.near
              /\ projection.far = before.projection.far
              /\ Length(VSub(position, focus))
                    = RDiv(RAdd(projection.near, projection.far), <<2, 1>>)
        /\ projection.kind = "Perspective" =>
              /\ projection = before.projection
              /\ Length(VSub(position, focus)) = radius
        /\ transform.translation = AsVec3(position)
        /\ transform.rotation = AsQuat(Composed)

\* An update under an orthographic projection with a radius argument that is
\* not an f32 number and differs from (near + far) / 2: the scale changed, and
\* the yaw and pitch turned the camera off the forward axis.
C9_Witness ==
    /\ phase = "updated" /\ projection.kind = "Orthographic"
    /\ radius = <<1, 20>> /\ yaw = 1 /\ pitch = -1
    /\ projection.scale # before.projection.scale
    /\ projection.scale # radius
    /\ position # focus

=============================================================================
